---------------------------- MODULE Spec2Model ----------------------------
(***************************************************************************)
(* A model of app.py: the Slack / iTop ticketing bridge.                   *)
(*                                                                         *)
(* Text is modelled as a sequence of one-character strings, so that the    *)
(* slicing, find, split and strip calls of the handlers are computed the   *)
(* way Python computes them.  Indices of the Python-level operators are    *)
(* 0-based, as in the source.                                              *)
(***************************************************************************)
EXTENDS Integers, Sequences, FiniteSets, TLC

(***************************************************************************)
(* Python string primitives                                                *)
(***************************************************************************)
Min2(a, b) == IF a < b THEN a ELSE b

Max2(a, b) == IF a > b THEN a ELSE b

\* A slice bound i normalised for a string of length n: negative bounds count
\* from the end, all bounds are clamped to 0..n.
PyIdx(n, i) == IF i < 0 THEN Max2(n + i, 0) ELSE Min2(i, n)

\* s[a:b]
Slice(s, a, b) ==
    LET lo == PyIdx(Len(s), a)
        hi == PyIdx(Len(s), b)
    IN  IF lo >= hi THEN << >> ELSE SubSeq(s, lo + 1, hi)

\* s[a:]
SliceFrom(s, a) == Slice(s, a, Len(s))

\* pat occurs in s at the 0-based offset i
MatchAt(s, pat, i) ==
    /\ i >= 0
    /\ i + Len(pat) <= Len(s)
    /\ SubSeq(s, i + 1, i + Len(pat)) = pat

\* s.find(pat, start): the lowest offset >= start where pat occurs, else -1
Find(s, pat, start) ==
    LET st == PyIdx(Len(s), start)
        hits == {i \in st..(Len(s) - Len(pat)) : MatchAt(s, pat, i)}
    IN  IF hits = {} THEN -1
        ELSE CHOOSE i \in hits : \A j \in hits : i <= j

\* pat in s
Contains(s, pat) == Find(s, pat, 0) # -1

Whitespace == {" ", "\n", "\t", "\r"}

RECURSIVE LStrip(_)
LStrip(s) ==
    IF s # << >> /\ Head(s) \in Whitespace THEN LStrip(Tail(s)) ELSE s

RECURSIVE RStrip(_)
RStrip(s) ==
    IF s # << >> /\ s[Len(s)] \in Whitespace
    THEN RStrip(SubSeq(s, 1, Len(s) - 1))
    ELSE s

\* s.strip()
Strip(s) == LStrip(RStrip(s))

\* s.split(sep): the pieces of s between the occurrences of sep
RECURSIVE Split(_, _)
Split(s, sep) ==
    LET i == Find(s, sep, 0)
    IN  IF i = -1 THEN <<s>>
        ELSE <<Slice(s, 0, i)>> \o Split(SliceFrom(s, i + Len(sep)), sep)

\* "".join(pieces)
RECURSIVE Join(_)
Join(pieces) ==
    IF pieces = << >> THEN << >> ELSE Head(pieces) \o Join(Tail(pieces))

(***************************************************************************)
(* Literal text of the source                                              *)
(***************************************************************************)
LinkMarker == <<"L", "i", "n", "k", " ", "t", "o", " ", "S", "l", "a", "c", "k", ":">>

SlashP == <<"/", "p">>

Slash == <<"/">>

TicketMarker == <<"R", "-">>

AssignedMarker == <<"A", "s", "s", "i", "g", "n", "e", "d", " ", "t", "o", ":">>

Newline == <<"\n">>

Dot == <<".">>

Space == <<" ">>

UrlBase == <<"h", "t", "t", "p", "s", ":", "/", "/", "x", "x", "x", ".", "s", "l", "a", "c", "k", ".", "c", "o", "m", "/", "a", "r", "c", "h", "i", "v", "e", "s", "/">>

(***************************************************************************)
(* The values the environment supplies: channel ids, thread timestamps,    *)
(* ticket ids and display names.                                           *)
(***************************************************************************)
ChanA == <<"C", "1">>

ChanB == <<"C", "2">>

TsA == <<"1", "6", "9", "9", "9", "9", "9", "9", "9", "9", ".", "1", "2", "3", "4", "5", "6">>

TsB == <<"1", "7", "0", "0", "0", "0", "0", "0", "0", "0", ".", "0", "0", "0", "0", "0", "1">>

TicketA == <<"R", "-", "0", "0", "0", "1", "1", "1">>

NameJane == <<"J", "a", "n", "e", " ", "D", "o", "e">>

NameJohn == <<"J", "o", "h", "n", " ", "R", "o", "e">>

TxtTicket == <<"T", "i", "c", "k", "e", "t", " ">>

TxtUpdate == <<" ", "u", "p", "d", "a", "t", "e", ".">>

(***************************************************************************)
(* The back-link of raise_ticket and the parsing of the webhook handlers   *)
(***************************************************************************)
\* raise_ticket: thread_ts_fixed = "".join(thread_ts.split('.')) and the
\* address "https://xxx.slack.com/archives/" + channel_id + "/p" + thread_ts_fixed
SlackAddress(channel_id, thread_ts) ==
    UrlBase \o channel_id \o SlashP \o Join(Split(thread_ts, Dot))

\* link = text[start_index:].strip(), start_index = text.find("Link to Slack:")
LinkOf(text) == Strip(SliceFrom(text, Find(text, LinkMarker, 0)))

\* link.split("/p")[1] exists
HasPathPart(text) == Len(Split(LinkOf(text), SlashP)) >= 2

\* The slice of ticket_assigned and ticket_resolved with the period put after
\* nine characters instead of ten.
ThreadTokenAfterNine(text) ==
    LET sa == Strip(Split(LinkOf(text), SlashP)[2])
    IN  Slice(sa, 0, 9) \o Dot \o SliceFrom(sa, 9)

\* slack_address = link.split("/p")[1].strip();
\* slack_address = slack_address[:10] + "." + slack_address[10:]
ThreadTokenOf(text) ==
    LET sa == Strip(Split(LinkOf(text), SlashP)[2])
    IN  Slice(sa, 0, 10) \o Dot \o SliceFrom(sa, 10)

\* channel_id = link.split("/")[-2].strip()
ChannelOf(text) ==
    LET parts == Split(LinkOf(text), Slash)
    IN  Strip(parts[Len(parts) - 1])

\* ticket_number = text[start_ticket:start_ticket + 8], start_ticket = text.find("R-")
TicketNumberOf(text) ==
    LET start_ticket == Find(text, TicketMarker, 0)
    IN  Slice(text, start_ticket, start_ticket + 8)

\* text[assigned_person_start_index:newline_index].split("Assigned to:")
AssignedParts(text) ==
    LET assigned_person_start_index == Find(text, AssignedMarker, 0)
        newline_index == Find(text, Newline, assigned_person_start_index)
    IN  Split(Slice(text, assigned_person_start_index, newline_index), AssignedMarker)

\* ....split("Assigned to:")[1] exists
HasAssignee(text) == Len(AssignedParts(text)) >= 2

\* assigned_person_name = ....split("Assigned to:")[1].strip()
AssignedNameOf(text) == Strip(AssignedParts(text)[2])

(***************************************************************************)
(* Webhook payloads.  The ticketing system fills a text block from the     *)
(* ticket's fields; the layouts below place the same fields differently,   *)
(* or leave one of them out.  A payload is a record                        *)
(* [layout, channel, ts, name]; WebhookText is its blocks[0].text.text.    *)
(***************************************************************************)
AssignedLine(name) == AssignedMarker \o Space \o name \o Newline

LinkLine(channel_id, thread_ts) ==
    LinkMarker \o Space \o SlackAddress(channel_id, thread_ts)

Layouts ==
    {"link_last", "link_first", "no_marker", "no_path", "no_ticket", "no_assignee"}

WebhookText(w) ==
    CASE w.layout = "link_last" ->
            TxtTicket \o TicketA \o TxtUpdate \o Newline
                \o AssignedLine(w.name) \o LinkLine(w.channel, w.ts)
      [] w.layout = "link_first" ->
            LinkLine(w.channel, w.ts) \o Space \o TxtTicket \o TicketA \o Space
                \o AssignedLine(w.name) \o TxtUpdate
      [] w.layout = "no_marker" ->
            TxtTicket \o TicketA \o TxtUpdate \o Newline
                \o AssignedLine(w.name) \o SlackAddress(w.channel, w.ts)
      [] w.layout = "no_path" ->
            TxtTicket \o TicketA \o TxtUpdate \o Newline
                \o AssignedLine(w.name) \o LinkMarker \o Space \o UrlBase \o w.channel
      [] w.layout = "no_ticket" ->
            TxtTicket \o TxtUpdate \o Newline
                \o AssignedLine(w.name) \o LinkLine(w.channel, w.ts)
      [] w.layout = "no_assignee" ->
            TxtTicket \o TicketA \o TxtUpdate \o Newline
                \o LinkLine(w.channel, w.ts)

(***************************************************************************)
(* The environment: the chat workspace and its members                     *)
(***************************************************************************)
NameAnn == <<"A", "n", "n", " ", "L", "e", "e">>

NameRoy == <<"R", "o", "y", " ", "K", "i", "m">>

\* E-mail addresses: two inside the domains /update-user-info keeps, one
\* outside them.
EmailJane == <<"j", "a", "n", "e", "@", "x", "x", "x", ".", "c", "o", "m">>

EmailAnn == <<"a", "n", "n", "@", "x", "x", "x", "x", ".", "c", "o", "m">>

EmailRoy == <<"r", "o", "y", "@", "m", "a", "i", "l", ".", "c", "o", "m">>

Thread(channel_id, thread_ts) == [channel |-> channel_id, ts |-> thread_ts]

\* The threads that exist in the workspace.  The platform issues timestamps
\* per channel, so two channels can hold a thread with the same timestamp.
KnownThreads == {Thread(ChanA, TsA), Thread(ChanB, TsA), Thread(ChanA, TsB)}

NoThread == Thread(<< >>, << >>)

\* users_list: the members of the workspace
Members ==
    { [id |-> "U1", real_name |-> NameJane, email |-> EmailJane, is_admin |-> TRUE,
       is_bot |-> FALSE, is_app_user |-> FALSE, deleted |-> FALSE],
      [id |-> "U2", real_name |-> NameAnn, email |-> EmailAnn, is_admin |-> FALSE,
       is_bot |-> FALSE, is_app_user |-> FALSE, deleted |-> FALSE],
      [id |-> "U3", real_name |-> NameRoy, email |-> EmailRoy, is_admin |-> TRUE,
       is_bot |-> FALSE, is_app_user |-> FALSE, deleted |-> FALSE],
      [id |-> "UB", real_name |-> NameAnn, email |-> << >>, is_admin |-> FALSE,
       is_bot |-> TRUE, is_app_user |-> FALSE, deleted |-> FALSE] }

MemberIds == {m.id : m \in Members}

NoUser == "None"

(***************************************************************************)
(* State                                                                   *)
(*   trackerFile  ticketed_threads.txt: whether it exists, and its lines   *)
(*                as readlines() returns them, each with its "\n"          *)
(*   db           user_db.sqlite: whether the file exists, whether it      *)
(*                holds the users table, and the table's rows              *)
(*   reactions    the bot's reactions on the first message of each thread  *)
(*   tickets      per thread, the core/create calls sent since the last    *)
(*                resolution of the thread that ran to its tracker rewrite *)
(*   marked       the threads raise_ticket has added to the tracker and    *)
(*                ticket_resolved has not removed since                    *)
(*   lifecycle    per thread, where it stands: "created" from a core/create *)
(*                call for it until a resolution webhook for it reaches    *)
(*                the tracker rewrite, "resolved" from then until the next *)
(*                mention on it, "none" otherwise                          *)
(*   last         the handler invocation that ran last: its input, the     *)
(*                values it parsed, the outbound calls it made, the one    *)
(*                that raised and the one whose exception was swallowed    *)
(*   procs        the handler invocations in progress when handlers run    *)
(*                concurrently: for each, the statement it is at and its   *)
(*                local variables                                          *)
(*   started      the number of invocations started concurrently           *)
(*   passed       per thread, the concurrent invocations of raise_ticket   *)
(*                that did not find the thread in the set they loaded      *)
(***************************************************************************)
VARIABLES trackerFile, db, reactions, tickets, marked, lifecycle, last, procs,
          started, passed

vars ==
    <<trackerFile, db, reactions, tickets, marked, lifecycle, last, procs, started,
      passed>>

Call(api, arg) == [api |-> api, arg |-> arg]

NoWebhook == [layout |-> "none", channel |-> << >>, ts |-> << >>, name |-> << >>]

\* A handler invocation that has made no call yet.
Invocation(op, thread, w) ==
    [op |-> op, thread |-> thread, w |-> w, raised |-> "none",
     swallowed |-> "none", dropped |-> {}, failAt |-> 0, message |-> << >>,
     title |-> "",
     found |-> FALSE, closed |-> FALSE, ticket |-> << >>, name |-> << >>,
     user |-> NoUser, assignee |-> NoUser, conv |-> << >>, calls |-> << >>,
     crashed |-> FALSE]

(***************************************************************************)
(* Thread Ticket Tracker                                                   *)
(***************************************************************************)
\* load_ticketed_threads without the rstrip(): every element keeps its
\* line terminator.
LoadUnstripped(f) ==
    IF f.exists THEN {f.lines[i] : i \in 1..Len(f.lines)} ELSE {}

\* load_ticketed_threads: the set of the file's lines, each rstrip()ped;
\* the empty set when the file does not exist
load_ticketed_threads(f) ==
    IF f.exists THEN {RStrip(f.lines[i]) : i \in 1..Len(f.lines)} ELSE {}

\* The orders in which a for loop can visit the elements of a Python set.
Orderings(S) ==
    {o \in [1..Cardinality(S) -> S] : \A i, j \in DOMAIN o : i # j => o[i] # o[j]}

\* save_ticketed_threads: truncates the file and writes str(thread_ts) + "\n"
\* for each element, in the set's iteration order
save_ticketed_threads(S) ==
    {[exists |-> TRUE, lines |-> [i \in DOMAIN o |-> o[i] \o Newline]] : o \in Orderings(S)}

\* The filter of ticket_resolved with equality in the place of containment:
\* lines = [line for line in lines if slack_address != line].
RECURSIVE KeepLinesUnequal(_, _)
KeepLinesUnequal(lines, slack_address) ==
    IF lines = << >> THEN << >>
    ELSE (IF Head(lines) = slack_address THEN << >> ELSE <<Head(lines)>>)
             \o KeepLinesUnequal(Tail(lines), slack_address)

RECURSIVE KeepLines(_, _)
KeepLines(lines, slack_address) ==
    IF lines = << >> THEN << >>
    ELSE (IF Contains(Head(lines), slack_address) THEN << >> ELSE <<Head(lines)>>)
             \o KeepLines(Tail(lines), slack_address)

\* The rewrite of ticket_resolved without the writelines: the file is left
\* as open(..., "w") made it.
RewriteEmpty(f, slack_address) == [exists |-> TRUE, lines |-> << >>]

\* ticket_resolved: lines = [line for line in lines if slack_address not in line],
\* written back with writelines
RewriteWithout(f, slack_address) ==
    [exists |-> TRUE, lines |-> KeepLines(f.lines, slack_address)]

(***************************************************************************)
(* Identity Store                                                          *)
(***************************************************************************)
\* A query on a database that has no users table raises OperationalError;
\* sqlite3.connect has created the file by then.
DbReady == db.file /\ db.table

DbOpened == [db EXCEPT !.file = TRUE]

\* get_assigned_user_id: the id of a row with that real_name, or None
get_assigned_user_id(name) ==
    IF \E r \in db.rows : r.real_name = name
    THEN {r.id : r \in {x \in db.rows : x.real_name = name}}
    ELSE {NoUser}

\* A permission check that lets every caller through.
AlwaysAdmin(user_id) == [crashed |-> FALSE, admin |-> TRUE]

\* is_user_admin: with a database file, the is_admin column of the caller's
\* row, False when the caller has no row (the query raises when the file has
\* no users table); without a database file, the profile's is_admin flag
is_user_admin(user_id) ==
    IF db.file
    THEN IF ~db.table THEN [crashed |-> TRUE, admin |-> FALSE]
         ELSE [crashed |-> FALSE,
               admin |-> \E r \in db.rows : r.id = user_id /\ r.is_admin]
    ELSE [crashed |-> FALSE,
          admin |-> \E m \in Members : m.id = user_id /\ m.is_admin]

\* The row INSERT OR REPLACE writes for a member.
UserRow(m) ==
    [id |-> m.id, real_name |-> m.real_name, email |-> m.email, is_admin |-> m.is_admin]

\* store_user_info: CREATE TABLE IF NOT EXISTS, then INSERT OR REPLACE of every
\* member that is no bot, no app user and not deleted
store_user_info ==
    LET stored == {m \in Members : ~m.is_bot /\ ~m.is_app_user /\ ~m.deleted}
        rows == {UserRow(m) : m \in stored}
    IN  [file |-> TRUE, table |-> TRUE,
         rows |-> {r \in db.rows : r.id \notin {m.id : m \in stored}} \cup rows]

\* email LIKE '%' || suffix
EndsWith(s, suffix) ==
    /\ Len(s) >= Len(suffix)
    /\ SubSeq(s, Len(s) - Len(suffix) + 1, Len(s)) = suffix

\* The two domains the DELETE of /update-user-info spares.
DomainXxx == <<"@", "x", "x", "x", ".", "c", "o", "m">>

DomainXxxx == <<"@", "x", "x", "x", "x", ".", "c", "o", "m">>

\* handle_update_user_info on a database with a users table: INSERT OR
\* REPLACE of every member that is no bot, no app user and not deleted, then
\* the DELETE of the rows WHERE id NOT IN (active ids) OR email NOT LIKE
\* '%@xxx.com' AND email NOT LIKE '%@xxxx.com'
update_user_info ==
    LET active_user_ids == {m.id : m \in {n \in Members : ~n.deleted}}
        stored == {m \in Members :
                      ~m.is_bot /\ ~m.is_app_user /\ m.id \in active_user_ids}
        rows == {r \in db.rows : r.id \notin {m.id : m \in stored}}
                    \cup {UserRow(m) : m \in stored}
        inactive_and_invalid ==
            {r \in rows :
                \/ r.id \notin active_user_ids
                \/ ~EndsWith(r.email, DomainXxx) /\ ~EndsWith(r.email, DomainXxxx)}
    IN  [file |-> TRUE, table |-> TRUE, rows |-> rows \ inactive_and_invalid]

(***************************************************************************)
(* The title of the ticket                                                 *)
(***************************************************************************)
Uppercase == <<"A", "B", "C", "D", "E", "F", "G", "H", "I", "J", "K", "L", "M", "N", "O", "P", "Q", "R", "S", "T", "U", "V", "W", "X", "Y", "Z">>

Lowercase == <<"a", "b", "c", "d", "e", "f", "g", "h", "i", "j", "k", "l", "m", "n", "o", "p", "q", "r", "s", "t", "u", "v", "w", "x", "y", "z">>

\* s.lower(), for the letters A to Z
Lower(s) ==
    [i \in 1..Len(s) |->
        IF \E k \in 1..26 : Uppercase[k] = s[i]
        THEN Lowercase[CHOOSE k \in 1..26 : Uppercase[k] = s[i]]
        ELSE s[i]]

\* The literals the title rules search for, and two more spellings of them
\* that messages use.
Kw ==
    [ slack |->
          <<"s", "l", "a", "c", "k">>,
      slackCapital |->
          <<"S", "l", "a", "c", "k">>,
      slackUpper |->
          <<"S", "L", "A", "C", "K">>,
      upload |->
          <<"u", "p", "l", "o", "a", "d">>,
      zoom |->
          <<"z", "o", "o", "m", ".", "u", "s">>,
      shadowsocksCapital |->
          <<"S", "h", "a", "d", "o", "w", "s", "o", "c", "k", "s">>,
      shadowsocks |->
          <<"s", "h", "a", "d", "o", "w", "s", "o", "c", "k", "s">>,
      cannotConnect |->
          <<"c", "a", "n", "n", "o", "t", " ", "c", "o", "n", "n", "e", "c", "t", " ", "t", "o", " ", "I", "P", "S">>,
      account |->
          <<"a", "c", "c", "o", "u", "n", "t">>,
      disabled |->
          <<"d", "i", "s", "a", "b", "l", "e", "d">>,
      magicLink |->
          <<"m", "a", "g", "i", "c", " ", "l", "i", "n", "k">>,
      magicLinkCapital |->
          <<"M", "a", "g", "i", "c", " ", "L", "i", "n", "k">>,
      updateEmail |->
          <<"u", "p", "d", "a", "t", "e", " ", "e", "m", "a", "i", "l">>,
      changeEmail |->
          <<"c", "h", "a", "n", "g", "e", " ", "t", "h", "e", " ", "e", "m", "a", "i", "l", " ", "i", "d">>,
      tnc |->
          <<"T", "n", "C">>,
      renew |->
          <<"r", "e", "n", "e", "w">>,
      hourlyRate |->
          <<"h", "o", "u", "r", "l", "y", " ", "r", "a", "t", "e">> ]

TxtHello == <<"h", "e", "l", "l", "o">>

\* The title rules with the test for "upload" and "zoom.us" ahead of the
\* test for "slack".
TitleUploadFirst(message) ==
    IF Contains(message, Kw.upload) \/ Contains(message, Kw.zoom)
    THEN "Upload Consultation"
    ELSE IF Contains(Lower(message), Kw.slack) \/ Contains(message, Kw.slackCapital)
    THEN "Slack issue"
    ELSE ""

\* raise_ticket: the if / elif chain that assigns title
Title(message) ==
    IF Contains(Lower(message), Kw.slack) \/ Contains(message, Kw.slackCapital)
    THEN "Slack issue"
    ELSE IF Contains(message, Kw.upload) \/ Contains(message, Kw.zoom)
    THEN "Upload Consultation"
    ELSE IF \/ Contains(Lower(message), Kw.shadowsocksCapital)
            \/ Contains(message, Kw.shadowsocks)
            \/ Contains(message, Kw.cannotConnect)
    THEN "Shadowsocks issue"
    ELSE IF Contains(message, Kw.account) \/ Contains(message, Kw.disabled)
    THEN "Google account disabled"
    ELSE IF \/ Contains(Lower(message), Kw.magicLink)
            \/ Contains(Lower(message), Kw.updateEmail)
            \/ Contains(Lower(message), Kw.changeEmail)
    THEN "Expert / client email ID change request"
    ELSE IF Contains(message, Kw.tnc) \/ Contains(message, Kw.renew)
    THEN "TnC Issues"
    ELSE IF Contains(message, Kw.hourlyRate)
    THEN "Financial rate change request"
    ELSE ""

\* The phrases the messages of the model are made of.
Phrases ==
    {Kw.slack, Kw.slackCapital, Kw.slackUpper, Kw.upload, Kw.zoom, Kw.shadowsocksCapital,
     Kw.shadowsocks, Kw.cannotConnect, Kw.account, Kw.disabled, Kw.magicLinkCapital,
     Kw.tnc, Kw.renew, Kw.hourlyRate, TxtHello}

\* event['text']: one phrase, or two phrases with a space between them
Messages == Phrases \cup {p \o Space \o q : p, q \in Phrases}

\* The title of each message.
TitleTable == [message \in Messages |-> Title(message)]

\* The table above, computed once.
Titles == TitleTable @@ << >>

(***************************************************************************)
(* raise_ticket                                                            *)
(***************************************************************************)
\* raise_ticket without its membership test: no thread is taken to be in
\* the set.
NeverTicketed(thread_ts, ticketed_threads) == FALSE

\* thread_ts in ticketed_threads
IsTicketed(thread_ts, ticketed_threads) == thread_ts \in ticketed_threads

\* The calls from the create request on without the test of the response's
\* status: the reply is posted whatever comes back.
CreateCallsUnchecked(status) ==
    <<Call("core/create", status), Call("chat_postMessage", "created")>>

\* The calls from the create request on: the reply is posted only after a
\* 200 response.
CreateCalls(status) ==
    <<Call("core/create", status)>>
        \o (IF status = "200" THEN <<Call("chat_postMessage", "created")>> ELSE << >>)

Statuses == {"200", "500"}

\* The most create calls per thread the model follows.
MaxTickets == 2

\* A mention on the thread ev that sends no create call ends the time after
\* the thread's resolution.
Mentioned(ev) ==
    [lifecycle EXCEPT ![ev] = IF @ = "resolved" THEN "none" ELSE @]

RaiseTicket(ev, status, message) ==
    LET ticketed_threads == load_ticketed_threads(trackerFile)
        inv == [Invocation("raise_ticket", ev, NoWebhook) EXCEPT !.message = message]
    IN  /\ tickets[ev] < MaxTickets
        /\ IF IsTicketed(ev.ts, ticketed_threads)
           THEN /\ last' = [inv EXCEPT !.found = TRUE,
                                       !.calls = <<Call("chat_postMessage", "resolving")>>]
                /\ lifecycle' = Mentioned(ev)
                /\ UNCHANGED <<trackerFile, db, reactions, tickets, marked>>
           ELSE /\ trackerFile' \in save_ticketed_threads(ticketed_threads \cup {ev.ts})
                /\ marked' = marked \cup {ev}
                /\ IF DbReady
                   THEN /\ db' = db
                        /\ tickets' = [tickets EXCEPT ![ev] = @ + 1]
                        /\ lifecycle' = [lifecycle EXCEPT ![ev] = "created"]
                        /\ last' = [inv EXCEPT !.title = Titles[message],
                                                !.calls = CreateCalls(status)]
                   ELSE \* get_user_info_from_db raises
                        /\ db' = DbOpened
                        /\ tickets' = tickets
                        /\ lifecycle' = Mentioned(ev)
                        /\ last' = [inv EXCEPT !.crashed = TRUE]
                /\ UNCHANGED reactions
        /\ UNCHANGED <<procs, started, passed>>

(***************************************************************************)
(* /store-user-info                                                        *)
(***************************************************************************)
HandleStoreUserInfo(user_id) ==
    LET inv == Invocation("store_user_info", NoThread, NoWebhook)
        check == is_user_admin(user_id)
    IN  /\ IF check.crashed
           THEN db' = db /\ last' = [inv EXCEPT !.user = user_id, !.crashed = TRUE]
           ELSE IF ~check.admin
           THEN /\ db' = db
                /\ last' = [inv EXCEPT !.user = user_id,
                                       !.calls = <<Call("ack", "no permission")>>]
           ELSE /\ db' = store_user_info
                /\ last' = [inv EXCEPT !.user = user_id,
                                       !.calls = <<Call("chat_postEphemeral", "stored")>>]
        /\ UNCHANGED <<trackerFile, reactions, tickets, marked, lifecycle, procs, started, passed>>

(***************************************************************************)
(* /update-user-info                                                       *)
(***************************************************************************)
\* The INSERT raises when the database has no users table: the connection
\* has created the file by then and nothing is committed.
HandleUpdateUserInfo(user_id) ==
    LET inv == Invocation("update_user_info", NoThread, NoWebhook)
        check == is_user_admin(user_id)
    IN  /\ IF check.crashed
           THEN db' = db /\ last' = [inv EXCEPT !.user = user_id, !.crashed = TRUE]
           ELSE IF ~check.admin
           THEN /\ db' = db
                /\ last' = [inv EXCEPT !.user = user_id,
                                       !.calls = <<Call("chat_postEphemeral",
                                                        "no permission")>>]
           ELSE IF ~db.table
           THEN /\ db' = DbOpened
                /\ last' = [inv EXCEPT !.user = user_id, !.crashed = TRUE]
           ELSE /\ db' = update_user_info
                /\ last' = [inv EXCEPT !.user = user_id,
                                       !.calls = <<Call("chat_postEphemeral", "updated")>>]
        /\ UNCHANGED <<trackerFile, reactions, tickets, marked, lifecycle, procs, started,
                       passed>>

(***************************************************************************)
(* The webhook handlers.  A handler runs as a sequence of steps over an    *)
(* execution record: the invocation so far and the state it has written.   *)
(* A step of a crashed execution (an exception left the handler) does      *)
(* nothing.                                                                *)
(***************************************************************************)
Webhooks ==
    {[layout |-> "link_last", channel |-> t.channel, ts |-> t.ts, name |-> NameJane] :
         t \in KnownThreads}
    \cup {[layout |-> "link_last", channel |-> ChanA, ts |-> TsA, name |-> NameJohn]}
    \cup {[layout |-> l, channel |-> ChanA, ts |-> TsA, name |-> NameJane] :
              l \in Layouts \ {"link_last"}}

\* The payloads whose link is the last thing in the text.
LinkLastWebhooks == {w \in Webhooks : w.layout = "link_last"}

\* ticket_resolved reads no assignee: one name is enough for its payloads.
ResolvedWebhooks(ws) == {w \in ws : w.name = NameJane}

\* What the handlers parse out of each payload's text.
ParsedText ==
    [w \in Webhooks |->
        LET text == WebhookText(w)
        IN  [hasLink |-> HasPathPart(text),
             thread |-> IF HasPathPart(text)
                        THEN Thread(ChannelOf(text), ThreadTokenOf(text))
                        ELSE NoThread,
             ticket |-> TicketNumberOf(text),
             hasAssignee |-> HasAssignee(text),
             name |-> IF HasAssignee(text) THEN AssignedNameOf(text) ELSE << >>]]

\* The table above, computed once.
Parsed == ParsedText @@ << >>

Exec(inv, fail) ==
    [inv |-> inv, fail |-> fail, trackerFile |-> trackerFile, db |-> db, reactions |-> reactions,
     tickets |-> tickets, marked |-> marked, lifecycle |-> lifecycle]

Crash(x) == [x EXCEPT !.inv.crashed = TRUE]

Log(x, api, arg) == [x EXCEPT !.inv.calls = Append(@, Call(api, arg))]

\* The call `api` of this execution raises (a failure of the chat platform).
Fails(x, api) == x.fail = api

\* The call `api` is made and raises; the invocation records it.
Raise(x, api, arg) == [Log(x, api, arg) EXCEPT !.inv.raised = api]

\* The call `api` is made and raises inside a try block whose except clause
\* goes on: the invocation records it.
Swallow(x, api, arg) == [Log(x, api, arg) EXCEPT !.inv.swallowed = api]

\* The author of the first message of every thread.
Author == "U2"

\* link, slack_address and channel_id; IndexError when link.split("/p") has
\* one piece
ParseLink(x) ==
    IF x.inv.crashed THEN x
    ELSE IF ~Parsed[x.inv.w].hasLink THEN Crash(x)
    ELSE [x EXCEPT !.inv.thread = Parsed[x.inv.w].thread]

\* conversations_history(channel_id, oldest=slack_address, limit=1,
\* inclusive=True), then user_id = message["user"] for each message: user_id
\* stays unbound when no message comes back
FirstPost(x) ==
    IF x.inv.crashed THEN x
    ELSE IF Fails(x, "conversations_history")
    THEN Crash(Raise(x, "conversations_history", ""))
    ELSE IF x.inv.thread \in KnownThreads
    THEN [Log(x, "conversations_history", "") EXCEPT !.inv.user = Author]
    ELSE Log(x, "conversations_history", "")

\* ticket_number = text[start_ticket:end_ticket]
ParseTicket(x) ==
    IF x.inv.crashed THEN x
    ELSE [x EXCEPT !.inv.ticket = Parsed[x.inv.w].ticket]

\* assigned_person_name; IndexError when split("Assigned to:") has one piece
ParseAssignee(x) ==
    IF x.inv.crashed THEN x
    ELSE IF ~Parsed[x.inv.w].hasAssignee THEN Crash(x)
    ELSE [x EXCEPT !.inv.name = Parsed[x.inv.w].name]

\* assigned_user_id = get_assigned_user_id(assigned_person_name)
LookupAssignee(x, assigned_user_id) ==
    IF x.inv.crashed THEN x
    ELSE IF ~(x.db.file /\ x.db.table)
    THEN Crash([x EXCEPT !.db.file = TRUE])
    ELSE [x EXCEPT !.inv.assignee = assigned_user_id]

\* The try block without the test of the reactions read: reactions_add("eyes")
\* is called whatever reactions_get returned.
EnsureEyesUntested(x) ==
    IF x.inv.crashed THEN x
    ELSE IF Fails(x, "reactions_get") \/ x.inv.thread \notin KnownThreads
    THEN Swallow(x, "reactions_get", "")
    ELSE IF Fails(x, "reactions_add")
    THEN Swallow(Log(x, "reactions_get", ""), "reactions_add", "eyes")
    ELSE [Log(Log(x, "reactions_get", ""), "reactions_add", "eyes")
             EXCEPT !.reactions[x.inv.thread] = @ \cup {"eyes"}]

\* The try block: reactions_get, then reactions_add("eyes") when no "eyes"
\* reaction is on the message; any exception in the block is swallowed.
EnsureEyes(x) ==
    IF x.inv.crashed THEN x
    ELSE IF Fails(x, "reactions_get") \/ x.inv.thread \notin KnownThreads
    THEN Swallow(x, "reactions_get", "")
    ELSE IF "eyes" \in x.reactions[x.inv.thread]
    THEN Log(x, "reactions_get", "")
    ELSE IF Fails(x, "reactions_add")
    THEN Swallow(Log(x, "reactions_get", ""), "reactions_add", "eyes")
    ELSE [Log(Log(x, "reactions_get", ""), "reactions_add", "eyes")
             EXCEPT !.reactions[x.inv.thread] = @ \cup {"eyes"}]

\* chat_postMessage in the thread; its text reads user_id, which is unbound
\* (UnboundLocalError) when conversations_history returned no message
PostInThread(x, what) ==
    IF x.inv.crashed THEN x
    ELSE IF x.inv.user = NoUser THEN Crash(x)
    ELSE IF Fails(x, "chat_postMessage") \/ x.inv.thread \notin KnownThreads
    THEN Crash(Raise(x, "chat_postMessage", what))
    ELSE Log(x, "chat_postMessage", what)

\* conversations_open(users=assigned_user_id): the call is made with whatever
\* the lookup returned, and fails for None
OpenDirectChannel(x) ==
    IF x.inv.crashed THEN x
    ELSE IF x.inv.assignee = NoUser \/ Fails(x, "conversations_open")
    THEN Crash(Raise(x, "conversations_open", x.inv.assignee))
    ELSE Log(x, "conversations_open", x.inv.assignee)

\* chat_postMessage to the direct channel
PostDirect(x) ==
    IF x.inv.crashed THEN x ELSE Log(x, "chat_postMessage", "direct")

\* reactions_add("white_check_mark"): the platform refuses a reaction the
\* bot has already put on the message (already_reacted)
AddCheckMark(x) ==
    IF x.inv.crashed THEN x
    ELSE IF \/ Fails(x, "reactions_add")
            \/ x.inv.thread \notin KnownThreads
            \/ "white_check_mark" \in x.reactions[x.inv.thread]
    THEN Crash(Raise(x, "reactions_add", "white_check_mark"))
    ELSE [Log(x, "reactions_add", "white_check_mark")
             EXCEPT !.reactions[x.inv.thread] = @ \cup {"white_check_mark"}]

\* reactions_remove("eyes"): the platform refuses to remove a reaction that
\* is not on the message (no_reaction)
RemoveEyes(x) ==
    IF x.inv.crashed THEN x
    ELSE IF \/ Fails(x, "reactions_remove")
            \/ x.inv.thread \notin KnownThreads
            \/ "eyes" \notin x.reactions[x.inv.thread]
    THEN Crash(Raise(x, "reactions_remove", "eyes"))
    ELSE [Log(x, "reactions_remove", "eyes")
             EXCEPT !.reactions[x.inv.thread] = @ \ {"eyes"}]

\* The threads whose stored line the rewrite for slack_address drops.
Dropped(slack_address) ==
    {t \in KnownThreads : Contains(t.ts \o Newline, slack_address)}

\* The rewrite of ticketed_threads.txt; open(..., "r") raises when the file
\* does not exist
CloseThread(x) ==
    IF x.inv.crashed THEN x
    ELSE IF ~x.trackerFile.exists THEN Crash(x)
    ELSE [x EXCEPT !.inv.found = x.inv.thread.ts
                                     \in load_ticketed_threads(x.trackerFile),
                   !.inv.closed = TRUE,
                   !.inv.dropped = x.marked \cap Dropped(x.inv.thread.ts),
                   !.trackerFile = RewriteWithout(@, x.inv.thread.ts),
                   !.marked = @ \ Dropped(x.inv.thread.ts),
                   !.lifecycle = [t \in KnownThreads |->
                                     IF t = x.inv.thread THEN "resolved" ELSE @[t]],
                   !.tickets = [t \in KnownThreads |->
                                   IF t \in Dropped(x.inv.thread.ts) THEN 0 ELSE @[t]]]

(***************************************************************************)
(* send_conversation_to_itop                                               *)
(***************************************************************************)
Msg(id, user, text, bot_id) ==
    [id |-> id, user |-> user, text |-> text, bot_id |-> bot_id]

\* Thread transcripts conversations_replies can return: for each message,
\* whether it has an author, has text, and carries a bot id.
Conversations ==
    { <<Msg("m1", TRUE, TRUE, FALSE), Msg("m2", TRUE, TRUE, FALSE),
        Msg("m3", TRUE, TRUE, TRUE)>>,
      <<Msg("m1", TRUE, TRUE, TRUE), Msg("m2", TRUE, TRUE, FALSE),
        Msg("m3", TRUE, TRUE, FALSE)>>,
      <<Msg("m1", TRUE, TRUE, FALSE), Msg("m2", TRUE, TRUE, FALSE),
        Msg("m3", TRUE, TRUE, FALSE)>> }

\* The loop over the messages: first_message is the loop's flag, sent the
\* number of update calls made so far; the call number failAt answers with a
\* status other than 200 and ends the loop.
RECURSIVE UpdateCalls(_, _, _, _)
UpdateCalls(messages, first_message, sent, failAt) ==
    IF messages = << >> THEN << >>
    ELSE LET message == Head(messages)
         IN  IF message.user /\ message.text /\ ~message.bot_id
             THEN IF first_message
                  THEN UpdateCalls(Tail(messages), FALSE, sent, failAt)
                  ELSE IF sent + 1 = failAt
                  THEN <<Call("core/update", message.id)>>
                  ELSE <<Call("core/update", message.id)>>
                           \o UpdateCalls(Tail(messages), FALSE, sent + 1, failAt)
             ELSE UpdateCalls(Tail(messages), first_message, sent, failAt)

send_conversation_to_itop(conversation, failAt) ==
    UpdateCalls(conversation, TRUE, 0, failAt)

\* conversations_replies, then send_conversation_to_itop
SendConversation(x, conversation, failAt) ==
    IF x.inv.crashed THEN x
    ELSE IF Fails(x, "conversations_replies") \/ x.inv.thread \notin KnownThreads
    THEN Crash(Raise(x, "conversations_replies", ""))
    ELSE [Log(x, "conversations_replies", "")
             EXCEPT !.inv.conv = conversation,
                    !.inv.failAt = failAt,
                    !.inv.calls = @ \o send_conversation_to_itop(conversation, failAt)]

(***************************************************************************)
(* ticket_assigned and ticket_resolved                                     *)
(***************************************************************************)
AssignedFails == {"none", "reactions_get", "reactions_add"}

ResolvedFails == {"none", "chat_postMessage"}

\* ticket_assigned followed by the tracker rewrite of ticket_resolved.
ticket_assigned_closing(w, fail, assigned_user_id) ==
    CloseThread(PostDirect(OpenDirectChannel(PostInThread(EnsureEyes(
        LookupAssignee(ParseAssignee(ParseTicket(FirstPost(ParseLink(
            Exec(Invocation("ticket_assigned", NoThread, w), fail))))),
            assigned_user_id)), "assigned"))))

ticket_assigned(w, fail, assigned_user_id) ==
    PostDirect(OpenDirectChannel(PostInThread(EnsureEyes(
        LookupAssignee(ParseAssignee(ParseTicket(FirstPost(ParseLink(
            Exec(Invocation("ticket_assigned", NoThread, w), fail))))),
            assigned_user_id)), "assigned")))

TicketAssigned(w, fail) ==
    \E assigned_user_id \in get_assigned_user_id(Parsed[w].name) :
        \E x \in {ticket_assigned(w, fail, assigned_user_id)} :
            /\ last' = x.inv
            /\ db' = x.db
            /\ reactions' = x.reactions
            /\ trackerFile' = x.trackerFile
            /\ tickets' = x.tickets
            /\ marked' = x.marked
            /\ lifecycle' = x.lifecycle
            /\ UNCHANGED <<procs, started, passed>>

\* ticket_resolved up to and including the rewrite of the tracker file
ticket_resolved_rewrite(w, fail) ==
    CloseThread(PostInThread(RemoveEyes(AddCheckMark(
        FirstPost(ParseTicket(ParseLink(
            Exec(Invocation("ticket_resolved", NoThread, w), fail)))))),
        "resolved"))

\* The transcripts and failing update calls that make a difference to the
\* execution x: none once it has crashed.
Transcripts(x) ==
    IF x.inv.crashed THEN {<<<< >>, 0>>}
    ELSE {<<c, k>> : c \in Conversations, k \in 0..1}

\* ticket_resolved: the rewrite of the tracker, then conversations_replies
\* and send_conversation_to_itop
TicketResolved(w, fail) ==
    \E r \in {ticket_resolved_rewrite(w, fail)} :
        \E tr \in Transcripts(r) :
            \E x \in {SendConversation(r, tr[1], tr[2])} :
                /\ last' = x.inv
                /\ trackerFile' = x.trackerFile
                /\ reactions' = x.reactions
                /\ tickets' = x.tickets
                /\ marked' = x.marked
                /\ lifecycle' = x.lifecycle
                /\ UNCHANGED <<db, procs, started, passed>>

(***************************************************************************)
(* The handlers run one after another                                      *)
(***************************************************************************)
\* The handler invocations that can be in progress at the same time.
NProcs == 2

Procs == 1..NProcs

\* No invocation in progress.
Idle ==
    [pc |-> "idle", op |-> "none", thread |-> NoThread, loaded |-> {}, lines |-> << >>,
     before |-> {}]

Init ==
    /\ trackerFile = [exists |-> FALSE, lines |-> << >>]
    /\ db = [file |-> FALSE, table |-> FALSE, rows |-> {}]
    /\ reactions = [t \in KnownThreads |-> {}]
    /\ tickets = [t \in KnownThreads |-> 0]
    /\ marked = {}
    /\ lifecycle = [t \in KnownThreads |-> "none"]
    /\ last = Invocation("none", NoThread, NoWebhook)
    /\ procs = [p \in Procs |-> Idle]
    /\ started = 0
    /\ passed = [t \in KnownThreads |-> 0]

Next ==
    \/ \E ev \in KnownThreads, status \in Statuses :
           RaiseTicket(ev, status, TxtHello)
    \/ \E user_id \in MemberIds : HandleStoreUserInfo(user_id)
    \/ \E w \in LinkLastWebhooks, fail \in AssignedFails : TicketAssigned(w, fail)
    \/ \E w \in ResolvedWebhooks(LinkLastWebhooks), fail \in ResolvedFails :
           TicketResolved(w, fail)

Spec == Init /\ [][Next]_vars

(***************************************************************************)
(* The handlers run one after another on the thread (C1, TsA); the         *)
(* webhooks carry every payload layout                                     *)
(***************************************************************************)
NextParse ==
    \/ \E status \in Statuses : RaiseTicket(Thread(ChanA, TsA), status, TxtHello)
    \/ \E user_id \in MemberIds : HandleStoreUserInfo(user_id)
    \/ \E w \in Webhooks, fail \in AssignedFails : TicketAssigned(w, fail)
    \/ \E w \in ResolvedWebhooks(Webhooks), fail \in ResolvedFails :
           TicketResolved(w, fail)

SpecParse == Init /\ [][NextParse]_vars

(***************************************************************************)
(* The handlers run one after another on the thread (C1, TsA); the         *)
(* mentions carry every message                                            *)
(***************************************************************************)
NextTitle ==
    \/ \E status \in Statuses, message \in Messages :
           RaiseTicket(Thread(ChanA, TsA), status, message)
    \/ \E user_id \in MemberIds : HandleStoreUserInfo(user_id)
    \/ \E w \in LinkLastWebhooks, fail \in AssignedFails :
           Parsed[w].thread = Thread(ChanA, TsA) /\ TicketAssigned(w, fail)
    \/ \E w \in ResolvedWebhooks(LinkLastWebhooks), fail \in ResolvedFails :
           Parsed[w].thread = Thread(ChanA, TsA) /\ TicketResolved(w, fail)

SpecTitle == Init /\ [][NextTitle]_vars

(***************************************************************************)
(* The handlers that read or write the identity store, run one after       *)
(* another                                                                 *)
(***************************************************************************)
NextStore ==
    \/ \E user_id \in MemberIds : HandleStoreUserInfo(user_id)
    \/ \E user_id \in MemberIds : HandleUpdateUserInfo(user_id)
    \/ \E ev \in KnownThreads, status \in Statuses :
           RaiseTicket(ev, status, TxtHello)
    \/ \E w \in LinkLastWebhooks : TicketAssigned(w, "none")

SpecStore == Init /\ [][NextStore]_vars

(***************************************************************************)
(* The back-link from raise_ticket to the webhook handlers: channel ids    *)
(* and thread timestamps of the platform's form, each built into a payload *)
(* that ends with the link, each payload parsed by either handler          *)
(***************************************************************************)
ChanPrivate == <<"G", "0", "P", "7">>

ChanDirect == <<"D", "9", "P", "A">>

ChannelIds == {ChanA, ChanB, ChanPrivate, ChanDirect}

\* The ten digits before the period of a thread timestamp.
Seconds ==
    { <<"1", "6", "9", "9", "9", "9", "9", "9", "9", "9">>,
      <<"1", "7", "0", "0", "0", "0", "0", "0", "0", "0">>,
      <<"0", "0", "0", "0", "0", "0", "0", "0", "0", "0">>,
      <<"1", "2", "3", "4", "5", "6", "7", "8", "9", "0">> }

\* The six digits after the period.
Micros ==
    { <<"1", "2", "3", "4", "5", "6">>,
      <<"0", "0", "0", "0", "0", "1">>,
      <<"0", "0", "0", "0", "0", "0">>,
      <<"9", "9", "9", "9", "9", "9">> }

Timestamps == {sec \o Dot \o mic : sec \in Seconds, mic \in Micros}

\* The payloads the ticketing system sends for a ticket raise_ticket has
\* created on one of these threads.
BackLinkWebhooks ==
    {[layout |-> "link_last", channel |-> c, ts |-> ts, name |-> NameJane] :
         c \in ChannelIds, ts \in Timestamps}

\* What the handlers parse out of the link of each such payload.
BackLinkText ==
    [w \in BackLinkWebhooks |->
        LET text == WebhookText(w)
        IN  [hasLink |-> HasPathPart(text),
             thread |-> IF HasPathPart(text)
                        THEN Thread(ChannelOf(text), ThreadTokenOf(text))
                        ELSE NoThread]]

\* The table above, computed once.
BackLinks == BackLinkText @@ << >>

\* The handler op parses link, slack_address and channel_id out of the
\* payload w.
ParseBackLink(op, w) ==
    /\ last' = IF BackLinks[w].hasLink
               THEN [Invocation(op, NoThread, w) EXCEPT !.thread = BackLinks[w].thread]
               ELSE [Invocation(op, NoThread, w) EXCEPT !.crashed = TRUE]
    /\ UNCHANGED <<trackerFile, db, reactions, tickets, marked, lifecycle, procs, started,
                   passed>>

NextLink ==
    \/ \E w \in BackLinkWebhooks : ParseBackLink("ticket_assigned", w)
    \/ \E w \in BackLinkWebhooks : ParseBackLink("ticket_resolved", w)

SpecLink == Init /\ [][NextLink]_vars

(***************************************************************************)
(* The handlers run concurrently.  The chat listener runs raise_ticket on  *)
(* a pool of threads and the webhook server runs ticket_resolved in a      *)
(* second process; ticketed_threads.txt is shared and no lock is taken.    *)
(* Each access to the file is a step of its own: a read of the whole file, *)
(* the truncation by open(..., "w"), and the write when the file is        *)
(* closed.                                                                 *)
(***************************************************************************)
\* The invocations a concurrent run starts.
MaxInvocations == 2

\* The threads the concurrent handlers are invoked for.
ConcThreads == {Thread(ChanA, TsA), Thread(ChanA, TsB)}

\* A write of `new` from offset 0 into a file that holds `cur`: it replaces
\* the first lines and leaves what lies beyond it (every line of the file has
\* the same length).
Overlay(cur, new) == new \o SubSeq(cur, Len(new) + 1, Len(cur))

Proc(op, pc, thread) == [Idle EXCEPT !.op = op, !.pc = pc, !.thread = thread]

\* A new invocation takes the first free place.
Free(p) == procs[p].pc = "idle" /\ \A q \in Procs : q < p => procs[q].pc # "idle"

At(p, op, pc) == procs[p].op = op /\ procs[p].pc = pc

Goto(p, pc) == procs' = [procs EXCEPT ![p].pc = pc]

Finish(p) == procs' = [procs EXCEPT ![p] = Idle]

StartRaise(p, ev) ==
    /\ Free(p)
    /\ started < MaxInvocations
    /\ tickets[ev] < MaxTickets
    /\ procs' = [procs EXCEPT ![p] = Proc("raise_ticket", "load", ev)]
    /\ started' = started + 1
    /\ UNCHANGED <<trackerFile, db, reactions, tickets, marked, lifecycle, last, passed>>

\* ticketed_threads = load_ticketed_threads()
RaiseLoad(p) ==
    /\ At(p, "raise_ticket", "load")
    /\ procs' = [procs EXCEPT ![p].pc = "test",
                              ![p].loaded = load_ticketed_threads(trackerFile)]
    /\ UNCHANGED <<trackerFile, db, reactions, tickets, marked, lifecycle, last, started, passed>>

\* if thread_ts in ticketed_threads: reply and return
RaiseTest(p) ==
    /\ At(p, "raise_ticket", "test")
    /\ IF IsTicketed(procs[p].thread.ts, procs[p].loaded)
       THEN Finish(p) /\ passed' = passed /\ lifecycle' = Mentioned(procs[p].thread)
       ELSE Goto(p, "truncate")
            /\ passed' = [passed EXCEPT ![procs[p].thread] = @ + 1]
            /\ lifecycle' = lifecycle
    /\ UNCHANGED <<trackerFile, db, reactions, tickets, marked, last, started>>

\* save_ticketed_threads: open(ticketed_threads_file, 'w')
RaiseTruncate(p) ==
    /\ At(p, "raise_ticket", "truncate")
    /\ trackerFile' = [exists |-> TRUE, lines |-> << >>]
    /\ procs' = [procs EXCEPT ![p].pc = "write",
                              ![p].before = load_ticketed_threads(trackerFile)]
    /\ UNCHANGED <<db, reactions, tickets, marked, lifecycle, last, started, passed>>

\* save_ticketed_threads: the lines reach the file when it is closed
RaiseWrite(p) ==
    /\ At(p, "raise_ticket", "write")
    /\ \E f \in save_ticketed_threads(procs[p].loaded \cup {procs[p].thread.ts}) :
           trackerFile' = [exists |-> TRUE,
                           lines |-> Overlay(trackerFile.lines, f.lines)]
    /\ marked' = marked \cup {procs[p].thread}
    /\ procs' = [procs EXCEPT ![p].pc = "create", ![p].before = {}]
    /\ UNCHANGED <<db, reactions, tickets, lifecycle, last, started, passed>>

\* get_user_info_from_db, the create request and the reply
RaiseCreate(p) ==
    /\ At(p, "raise_ticket", "create")
    /\ IF DbReady
       THEN /\ db' = db
            /\ tickets' = [tickets EXCEPT ![procs[p].thread] = @ + 1]
            /\ lifecycle' = [lifecycle EXCEPT ![procs[p].thread] = "created"]
       ELSE /\ db' = DbOpened
            /\ tickets' = tickets
            /\ lifecycle' = Mentioned(procs[p].thread)
    /\ Finish(p)
    /\ UNCHANGED <<trackerFile, reactions, marked, last, started, passed>>

StartResolve(p, w) ==
    /\ Free(p)
    /\ started < MaxInvocations
    /\ procs' = [procs EXCEPT ![p] = Proc("ticket_resolved", "slack", Parsed[w].thread)]
    /\ started' = started + 1
    /\ UNCHANGED <<trackerFile, db, reactions, tickets, marked, lifecycle, last, passed>>

\* ticket_resolved from the first post to the reply in the thread
ResolveSlack(p) ==
    /\ At(p, "ticket_resolved", "slack")
    /\ LET x == PostInThread(RemoveEyes(AddCheckMark(FirstPost(
                    [Exec(Invocation("ticket_resolved", procs[p].thread, NoWebhook),
                          "none") EXCEPT !.inv.thread = procs[p].thread]))),
                    "resolved")
       IN  /\ reactions' = x.reactions
           /\ IF x.inv.crashed THEN Finish(p) ELSE Goto(p, "read")
    /\ UNCHANGED <<trackerFile, db, tickets, marked, lifecycle, last, started, passed>>

\* with open(ticketed_threads_file, "r"): lines = file.readlines()
ResolveRead(p) ==
    /\ At(p, "ticket_resolved", "read")
    /\ IF trackerFile.exists
       THEN procs' = [procs EXCEPT ![p].pc = "truncate", ![p].lines = trackerFile.lines]
       ELSE Finish(p)
    /\ UNCHANGED <<trackerFile, db, reactions, tickets, marked, lifecycle, last, started, passed>>

\* open(ticketed_threads_file, "w")
ResolveTruncate(p) ==
    /\ At(p, "ticket_resolved", "truncate")
    /\ trackerFile' = [exists |-> TRUE, lines |-> << >>]
    /\ procs' = [procs EXCEPT ![p].pc = "write",
                              ![p].before = load_ticketed_threads(trackerFile)]
    /\ UNCHANGED <<db, reactions, tickets, marked, lifecycle, last, started, passed>>

\* file.writelines(lines), written when the file is closed
ResolveWrite(p) ==
    /\ At(p, "ticket_resolved", "write")
    /\ trackerFile' =
           [exists |-> TRUE,
            lines |-> Overlay(trackerFile.lines,
                              KeepLines(procs[p].lines, procs[p].thread.ts))]
    /\ marked' = marked \ Dropped(procs[p].thread.ts)
    /\ tickets' = [t \in KnownThreads |->
                      IF t \in Dropped(procs[p].thread.ts) THEN 0 ELSE tickets[t]]
    /\ lifecycle' = [lifecycle EXCEPT ![procs[p].thread] = "resolved"]
    /\ procs' = [procs EXCEPT ![p].pc = "send", ![p].before = {}]
    /\ UNCHANGED <<db, reactions, last, started, passed>>

\* conversations_replies and send_conversation_to_itop
ResolveSend(p) ==
    /\ At(p, "ticket_resolved", "send")
    /\ Finish(p)
    /\ UNCHANGED <<trackerFile, db, reactions, tickets, marked, lifecycle, last, started, passed>>

\* A concurrent run starts in a state the handlers reach one after another:
\* the identity store is filled, and the threads of `open` have a ticket that
\* has been assigned.
InitConc ==
    \E open \in SUBSET ConcThreads :
        /\ trackerFile \in
               IF open = {} THEN {[exists |-> FALSE, lines |-> << >>]}
               ELSE save_ticketed_threads({t.ts : t \in open})
        /\ db = [file |-> TRUE, table |-> TRUE,
                 rows |-> {UserRow(m) : m \in {n \in Members : ~n.is_bot}}]
        /\ reactions = [t \in KnownThreads |-> IF t \in open THEN {"eyes"} ELSE {}]
        /\ tickets = [t \in KnownThreads |-> IF t \in open THEN 1 ELSE 0]
        /\ marked = open
        /\ lifecycle = [t \in KnownThreads |-> IF t \in open THEN "created" ELSE "none"]
        /\ last = Invocation("none", NoThread, NoWebhook)
        /\ procs = [p \in Procs |-> Idle]
        /\ started = 0
        /\ passed = [t \in KnownThreads |-> 0]

NextConc ==
    \/ \E p \in Procs, ev \in ConcThreads : StartRaise(p, ev)
    \/ \E p \in Procs : RaiseLoad(p)
    \/ \E p \in Procs : RaiseTest(p)
    \/ \E p \in Procs : RaiseTruncate(p)
    \/ \E p \in Procs : RaiseWrite(p)
    \/ \E p \in Procs : RaiseCreate(p)
    \/ \E p \in Procs, w \in ResolvedWebhooks(LinkLastWebhooks) :
           Parsed[w].thread \in ConcThreads /\ StartResolve(p, w)
    \/ \E p \in Procs : ResolveSlack(p)
    \/ \E p \in Procs : ResolveRead(p)
    \/ \E p \in Procs : ResolveTruncate(p)
    \/ \E p \in Procs : ResolveWrite(p)
    \/ \E p \in Procs : ResolveSend(p)

SpecConc == InitConc /\ [][NextConc]_vars

(***************************************************************************)
(* Properties of the handlers run one after another (Spec)                 *)
(***************************************************************************)
\* The handler invocation `inv` posted a message.
Posted(inv) ==
    /\ inv.raised # "chat_postMessage"
    /\ \E i \in 1..Len(inv.calls) : inv.calls[i].api = "chat_postMessage"

\* The handler invocation `inv` sent a request `api` to the ticket system.
Requested(inv, api) == \E i \in 1..Len(inv.calls) : inv.calls[i].api = api

\* The handler invocation `inv` sent a create request that was refused.
CreateRefused(inv) ==
    \E i \in 1..Len(inv.calls) :
        inv.calls[i].api = "core/create" /\ inv.calls[i].arg # "200"

OnlyReply == <<Call("chat_postMessage", "resolving")>>

\* C1: with the identity store filled, after any mention handled by
\* raise_ticket on a thread, exactly one create request has been sent for
\* that thread since its last resolution, and a mention that found the
\* thread in the tracker made the "already being resolved" reply and no
\* other call.
C1_ExactlyOneCreate ==
    (DbReady /\ last.op = "raise_ticket")
        => /\ tickets[last.thread] = 1
           /\ last.found => last.calls = OnlyReply

\* C2: a resolution webhook for a known thread whose token is in the
\* tracker, handled while the platform refuses none of the calls for a
\* reason of its own, leaves the tracker without the token, whether or not
\* the "eyes" reaction was on the first message.
C2_ResolutionRemovesThread ==
    [][(/\ last'.op = "ticket_resolved"
        /\ last'.thread \in KnownThreads
        /\ last'.thread.ts \in load_ticketed_threads(trackerFile)
        /\ last'.raised # "chat_postMessage")
           => last'.thread.ts \notin load_ticketed_threads(trackerFile')]_vars

\* C3: a mention whose create request gets a response other than 200 posts
\* no reply and leaves the thread in the tracker; a thread in the tracker
\* stays there through every handler but ticket_resolved; and a mention on
\* a thread in the tracker makes the "already being resolved" reply and
\* sends no create request.
C3_RefusedCreateKeepsThread ==
    [][/\ (last'.op = "raise_ticket" /\ CreateRefused(last'))
              => /\ ~Posted(last')
                 /\ last'.thread.ts \in load_ticketed_threads(trackerFile')
       /\ \A t \in KnownThreads :
              (t.ts \in load_ticketed_threads(trackerFile)
                   /\ last'.op # "ticket_resolved")
                  => t.ts \in load_ticketed_threads(trackerFile')
       /\ (last'.op = "raise_ticket"
               /\ last'.thread.ts \in load_ticketed_threads(trackerFile))
              => last'.calls = OnlyReply]_vars

\* C3: a create request has just been refused; the thread is in the tracker.
C3_CreateRefused ==
    /\ last.op = "raise_ticket"
    /\ last.calls = <<Call("core/create", "500")>>
    /\ last.thread.ts \in load_ticketed_threads(trackerFile)

\* C4: after raise_ticket has added a token to the tracker and saved it, a
\* load of the file holds the token; after ticket_resolved has rewritten
\* the file for a token, no line of the file contains the token and a load
\* does not hold it.
C4_TrackerRoundTrip ==
    /\ (last.op = "raise_ticket" /\ ~last.found)
           => last.thread.ts \in load_ticketed_threads(trackerFile)
    /\ (last.op = "ticket_resolved" /\ last.closed)
           => /\ last.thread.ts \notin load_ticketed_threads(trackerFile)
              /\ \A i \in 1..Len(trackerFile.lines) :
                     ~Contains(trackerFile.lines[i], last.thread.ts)

\* C4: ticket_resolved has rewritten a file that held the token of its
\* thread and the token of another thread, which it has kept.
C4_ClosedAmongOthers ==
    /\ last.op = "ticket_resolved"
    /\ last.closed
    /\ last.found
    /\ trackerFile.lines # << >>

\* C5: with the identity store filled, a mention finds its thread in the
\* tracker only when this very (channel, ts) pair was added to the tracker
\* and not removed since: the entry of (C1, ts) does not answer for
\* (C2, ts).
C5_KeyedByChannelAndTs ==
    (DbReady /\ last.op = "raise_ticket" /\ last.found) => last.thread \in marked

\* C9: with the identity store filled, an assignment webhook whose assignee
\* name is the real_name of no row posts the reply in the thread and calls
\* neither conversations_open nor the post to a direct channel.
C9_UnknownAssigneeSkipsDirect ==
    (/\ last.op = "ticket_assigned"
     /\ DbReady
     /\ last.name # << >>
     /\ \A r \in db.rows : r.real_name # last.name)
        => /\ \E i \in 1..Len(last.calls) :
                  last.calls[i] = Call("chat_postMessage", "assigned")
           /\ ~Requested(last, "conversations_open")
           /\ \A i \in 1..Len(last.calls) :
                  last.calls[i] # Call("chat_postMessage", "direct")

(***************************************************************************)
(* Properties of the parsing of the webhook handlers (SpecParse)           *)
(***************************************************************************)
\* The payload w lacks a field the handler `op` parses: the link marker,
\* the "/p" of the link, the "R-" of the ticket id or, for ticket_assigned,
\* the "Assigned to:" marker.
Malformed(op, w) ==
    \/ w.layout \in {"no_marker", "no_path", "no_ticket"}
    \/ op = "ticket_assigned" /\ w.layout = "no_assignee"

WebhookHandlers == {"ticket_assigned", "ticket_resolved"}

\* C8: a webhook handler given a payload that lacks one of the fields it
\* parses changes no reaction, posts no message, sends no update request
\* and leaves the tracker file as it was.
C8_MalformedWithoutEffect ==
    [][(last'.op \in WebhookHandlers /\ Malformed(last'.op, last'.w))
           => /\ reactions' = reactions
              /\ trackerFile' = trackerFile
              /\ ~Posted(last')
              /\ ~Requested(last', "core/update")]_vars

\* C10: from a payload that holds the ticket id, the assignee line and the
\* link line, whatever follows the link, the handlers parse the channel and
\* the thread token the link was built from and the ticket id, and
\* ticket_assigned parses the assignee's name.
C10_ParseContract ==
    (last.op \in WebhookHandlers /\ last.w.layout \in {"link_last", "link_first"})
        => /\ last.thread = Thread(last.w.channel, last.w.ts)
           /\ last.ticket = TicketA
           /\ last.op = "ticket_assigned" => last.name = last.w.name

(***************************************************************************)
(* Properties of the handlers run concurrently (SpecConc)                  *)
(***************************************************************************)
AllIdle == \A p \in Procs : procs[p].pc = "idle"

\* C6: an invocation of raise_ticket goes on to save the tracker and to send
\* the create request exactly when the set it loaded lacks its thread,
\* whatever the file holds by then: nothing keeps a second invocation for
\* the same thread from loading the file before the first has written it,
\* and then each of the two sends a create request.
C6_CreateRestsOnSnapshot ==
    /\ [](\A p \in Procs :
             (procs[p].op = "raise_ticket"
                  /\ procs[p].pc \in {"truncate", "write", "create"})
                 => procs[p].thread.ts \notin procs[p].loaded)
    /\ [][\A p \in Procs :
              (At(p, "raise_ticket", "create") /\ procs'[p].pc = "idle")
                  => tickets'[procs[p].thread] = tickets[procs[p].thread] + 1]_vars

\* C6: two concurrent invocations of raise_ticket for one thread have both
\* found the thread absent, and two create requests have been sent for it.
C6_TwoCreates ==
    /\ AllIdle
    /\ \E t \in ConcThreads : passed[t] = 2 /\ tickets[t] = 2

\* The lines of the file that a write from offset 0 did not reach.
LeftOver(i) == i <= Len(trackerFile.lines) /\ trackerFile'.lines[i] = trackerFile.lines[i]

\* C7: what a handler writes to the tracker file is made of the content it
\* read at its start: ticket_resolved writes lines it read that do not
\* contain its token, raise_ticket writes the tokens it loaded and its own.
\* A line another handler wrote in between is in the file afterwards only
\* where the write did not reach.
C7_WritesBackItsSnapshot ==
    [][\A p \in Procs :
         /\ (At(p, "ticket_resolved", "write") /\ procs'[p].pc = "send")
                => \A i \in 1..Len(trackerFile'.lines) :
                       \/ LeftOver(i)
                       \/ /\ \E j \in 1..Len(procs[p].lines) :
                                 procs[p].lines[j] = trackerFile'.lines[i]
                          /\ ~Contains(trackerFile'.lines[i], procs[p].thread.ts)
         /\ (At(p, "raise_ticket", "write") /\ procs'[p].pc = "create")
                => \A i \in 1..Len(trackerFile'.lines) :
                       \/ LeftOver(i)
                       \/ RStrip(trackerFile'.lines[i])
                              \in procs[p].loaded \cup {procs[p].thread.ts}]_vars

\* C7: ticket_resolved for t1 and raise_ticket for t2 have run concurrently
\* to their ends: t1 is resolved, a create request has been sent for t2,
\* and the tracker file does not hold t2.
C7_LostUpdate ==
    /\ AllIdle
    /\ \E t1, t2 \in ConcThreads :
           /\ t1 # t2
           /\ "white_check_mark" \in reactions[t1]
           /\ t1 \notin marked
           /\ passed[t2] = 1
           /\ tickets[t2] = 1
           /\ t2.ts \notin load_ticketed_threads(trackerFile)

(***************************************************************************)
(* Properties of the update calls and of the "eyes" marker (Spec)          *)
(***************************************************************************)
\* The message has an author, has text and carries no bot id.
Qualifies(message) == message.user /\ message.text /\ ~message.bot_id

IsUpdate(call) == call.api = "core/update"

\* The first failAt of the messages, all of them when failAt is 0.
CutOff(messages, failAt) ==
    IF failAt >= 1 /\ failAt <= Len(messages)
    THEN SubSeq(messages, 1, failAt)
    ELSE messages

\* The messages of the transcript other than its first message that have an
\* author, have text and have no bot id, in transcript order.
NonFirstMessages(conversation) == SelectSeq(Tail(conversation), Qualifies)

\* C11: after ticket_resolved has fetched a transcript, the update calls it
\* sent are the transcript's messages other than the transcript's first
\* that have an author, have text and have no bot id, one call per message
\* in transcript order, up to and including the first call that was
\* answered with a status other than 200.
C11_UpdatesAreNonFirstMessages ==
    (last.op = "ticket_resolved" /\ last.conv # << >>)
        => LET sent == CutOff(NonFirstMessages(last.conv), last.failAt)
           IN  SelectSeq(last.calls, IsUpdate)
                   = [i \in 1..Len(sent) |-> Call("core/update", sent[i].id)]

\* What ticket_assigned does about the "eyes" reaction of its thread.
EyesEnsured ==
    /\ Requested(last', "reactions_add") <=> "eyes" \notin reactions[last'.thread]
    /\ "eyes" \in reactions'[last'.thread]

C13_FailedReadStillAdds ==
    (last.op = "ticket_assigned" /\ last.swallowed = "reactions_get")
        => /\ \E i \in 1..Len(last.calls) :
                  last.calls[i] = Call("reactions_add", "eyes")
           /\ \E i \in 1..Len(last.calls) :
                  last.calls[i] = Call("chat_postMessage", "assigned")

C19_AssignedLeavesTracker ==
    [][/\ last'.op = "ticket_assigned" => trackerFile' = trackerFile
       /\ \A k \in load_ticketed_threads(trackerFile')
                       \ load_ticketed_threads(trackerFile) :
              last'.op = "raise_ticket"
       /\ \A k \in load_ticketed_threads(trackerFile)
                       \ load_ticketed_threads(trackerFile') :
              last'.op = "ticket_resolved"]_vars

\* C19: ticket_assigned has run to its reply in the thread for a thread
\* that is in the tracker.
C19_AssignedWithOpenThread ==
    /\ last.op = "ticket_assigned"
    /\ Posted(last)
    /\ last.thread.ts \in load_ticketed_threads(trackerFile)

(***************************************************************************)
(* Properties of the title (SpecTitle)                                     *)
(***************************************************************************)
\* raise_ticket has derived a title from the message of its mention.
Titled == last.op = "raise_ticket" /\ ~last.found /\ ~last.crashed

\* The message holds "slack" in one of the letter cases the messages use.
MentionsSlack(message) ==
    \E spelling \in {Kw.slack, Kw.slackCapital, Kw.slackUpper} :
        Contains(message, spelling)

\* C14: a message that contains "slack" in any letter case gets the title
\* "Slack issue", whichever keywords of the later rules it also contains.
C14_SlackRuleFirst ==
    (Titled /\ MentionsSlack(last.message)) => last.title = "Slack issue"

\* C14: a message with "SLACK" and "upload" has got the title "Slack issue".
C14_SlackAndUpload ==
    /\ Titled
    /\ Contains(last.message, Kw.slackUpper)
    /\ Contains(last.message, Kw.upload)
    /\ last.title = "Slack issue"

\* C15: a message that contains "Shadowsocks", "shadowsocks" or "cannot
\* connect to IPS", no "slack" in any letter case, no "upload" and no
\* "zoom.us" gets the title "Shadowsocks issue".
C15_ShadowsocksRule ==
    (/\ Titled
     /\ \/ Contains(last.message, Kw.shadowsocksCapital)
        \/ Contains(last.message, Kw.shadowsocks)
        \/ Contains(last.message, Kw.cannotConnect)
     /\ ~MentionsSlack(last.message)
     /\ ~Contains(last.message, Kw.upload)
     /\ ~Contains(last.message, Kw.zoom))
        => last.title = "Shadowsocks issue"

(***************************************************************************)
(* Properties of the bulk-import commands (SpecStore)                      *)
(***************************************************************************)
\* The admin flag of a caller: that of the caller's row in the users table
\* and, when the caller has no row there, that of the caller's profile.
HoldsAdminFlag(user_id) ==
    IF \E r \in db.rows : r.id = user_id
    THEN \E r \in db.rows : r.id = user_id /\ r.is_admin
    ELSE \E m \in Members : m.id = user_id /\ m.is_admin

BulkImportCommands == {"store_user_info", "update_user_info"}

C17_CreatedThreadIsTracked ==
    started <= 1 =>
        \A t \in KnownThreads :
            lifecycle[t] = "created" => t.ts \in load_ticketed_threads(trackerFile)

\* C20: with the identity store filled, the first mention on a thread after
\* a resolution webhook for it has been handled is treated as new: it does
\* not find the thread in the tracker, it sends a core/create call, and the
\* thread is in the tracker afterwards.
C20_MentionAfterResolutionIsNew ==
    [][(last'.op = "raise_ticket" /\ DbReady /\ lifecycle[last'.thread] = "resolved")
          => /\ ~last'.found
             /\ Requested(last', "core/create")
             /\ last'.thread.ts \in load_ticketed_threads(trackerFile')]_vars

(***************************************************************************)
(* Properties of the tracker file under concurrent handlers (SpecConc)     *)
(***************************************************************************)
\* The invocation p reads the tracker file in this step: load_ticketed_threads
\* in raise_ticket, readlines in ticket_resolved.
ReadsTracker(p) ==
    \/ At(p, "raise_ticket", "load") /\ procs'[p].pc = "test"
    \/ At(p, "ticket_resolved", "read") /\ procs'[p].pc = "truncate"

\* The entries the invocation p has got from that read.
EntriesRead(p) ==
    IF procs'[p].op = "raise_ticket" THEN procs'[p].loaded
    ELSE {RStrip(procs'[p].lines[i]) : i \in 1..Len(procs'[p].lines)}

\* The invocation q is inside a rewrite of the tracker file: it has opened
\* the file for writing and has not written yet.
Rewriting(q) == procs[q].pc = "write"

\* The entries the rewrite of q writes.
EntriesWritten(q) ==
    IF procs[q].op = "raise_ticket" THEN procs[q].loaded \cup {procs[q].thread.ts}
    ELSE LET lines == KeepLines(procs[q].lines, procs[q].thread.ts)
         IN  {RStrip(lines[i]) : i \in 1..Len(lines)}

\* C21: a read of the tracker file that runs while the other process is
\* inside a rewrite of it returns every entry that was in the file before
\* the rewrite and is among the entries the rewrite writes.
C21_ReadersSeeWholeSet ==
    [][\A p, q \in Procs :
          (/\ p # q
           /\ procs[p].op # procs[q].op
           /\ Rewriting(q)
           /\ ReadsTracker(p))
              => (procs[q].before \cap EntriesWritten(q)) \subseteq EntriesRead(p)]_vars

(***************************************************************************)
(* Properties of the back-link (SpecLink)                                  *)
(***************************************************************************)
\* C22: from a payload that ends with the link raise_ticket built for a
\* channel id and a thread timestamp of ten digits, a period and six digits,
\* ticket_assigned and ticket_resolved parse that channel id and that
\* timestamp, so the token ticket_resolved removes from the tracker is the
\* token raise_ticket stored.
C22_BackLinkRoundTrip ==
    (last.op \in WebhookHandlers /\ last.w \in BackLinkWebhooks)
        => /\ ~last.crashed
           /\ last.thread.channel = last.w.channel
           /\ last.thread.ts = last.w.ts

\* C22: ticket_resolved has parsed the link of a thread of the channel G0P7
\* whose timestamp has zeros on both sides of the period.
C22_ParsedZeros ==
    /\ last.op = "ticket_resolved"
    /\ last.w \in BackLinkWebhooks
    /\ last.w.channel = ChanPrivate
    /\ last.thread.channel = ChanPrivate
    /\ Len(last.thread.ts) = 17
    /\ \A i \in (1..17) \ {11} : last.thread.ts[i] = "0"
    /\ last.thread.ts[11] = "."

=============================================================================
